---- MODULE Spec2Model ----
(***************************************************************************)
(* A model of src/src/lib.rs: the two N-API queries get_process_info and   *)
(* get_app_container_process_tokens, with the helpers they call            *)
(* (HandleWrapper, add_app_container_process_name,                         *)
(* get_process_command_line, filetime_to_unix_timestamp).                  *)
(*                                                                         *)
(* The operating system is the environment.  What a target process holds   *)
(* (its identity, creation FILETIME, the pointers and the command-line     *)
(* descriptor in its memory, its token attributes) is drawn in the initial *)
(* state; whether each individual OS call succeeds is drawn when the call  *)
(* is made.  Every OS call of the code is one step of the machine.         *)
(*                                                                         *)
(* Unsigned 32- and 64-bit values are little-endian sequences of base-16   *)
(* digits (8 and 16 of them), so that they keep their width.               *)
(***************************************************************************)
EXTENDS Integers, Sequences, FiniteSets, TLC

VARIABLES
    build,      \* "dev" (overflow checks on) or "release" (wrapping arithmetic)
    query,      \* which exported function runs
    world,      \* the snapshot: the sequence of processes Process32First/Next deliver
    pc,         \* position in the running function
    idx,        \* index in world of the entry pe32 holds
    snapW,      \* process_snap: the snapshot HandleWrapper (NoWrapper before line 333/423)
    procW,      \* process: the process HandleWrapper of this iteration
    tokW,       \* process_token: the token HandleWrapper of this iteration
    open,       \* handles the OS currently holds open for this call
    acquired,   \* every valid handle the OS handed out during this call
    closeLog,   \* the arguments of CloseHandle, in call order
    list,       \* process_info_list / tokens
    ret,        \* what the function returned
    loc,        \* the locals of the current iteration
    calls,      \* the OS calls get_process_command_line issued for the current entry
    it,         \* what happened in the current iteration
    hist,       \* the finished iterations, in order
    snapRes,    \* outcome of CreateToolhelp32Snapshot
    firstRes    \* outcome of Process32First

vars == <<build, query, world, pc, idx, snapW, procW, tokW, open, acquired,
          closeLog, list, ret, loc, calls, it, hist, snapRes, firstRes>>

---------------------------------------------------------------------------
(* Bounds of the model *)

\* the longest snapshot of the multi-process specification
MaxProcs == 2
\* the longest explicit prefix of a target's command-line memory
MaxCmdUnits == 2
\* the longest explicit prefix the OS writes into the object-path buffer
MaxPathUnits == 2

---------------------------------------------------------------------------
(* Program constants *)

MAX_CMD_LINE_SIZE == 8192
MAX_OBJECT_PATH_SIZE == 1024
FILETIME_TO_SECONDS == 10000000
INVALID_HANDLE_VALUE == -1

---------------------------------------------------------------------------
(* Fixed-width unsigned arithmetic *)

Radix == 2^4
U32Digits == 8
U64Digits == 16

Max(S) == CHOOSE m \in S : \A n \in S : n <= m
Min(S) == CHOOSE m \in S : \A n \in S : m <= n

\* the k low base-16 digits of a natural number below 2^31
Digits(n, k) == [i \in 1..k |-> IF i <= 7 THEN (n \div Radix^(i-1)) % Radix
                                ELSE IF i = 8 THEN n \div Radix^7 ELSE 0]
\* the u32 with the given 16-bit halves
U32(hi16, lo16) == Digits(lo16, 4) \o Digits(hi16, 4)
ZeroDigits(k) == [i \in 1..k |-> 0]
\* `x as u64`
Widen(x) == x \o ZeroDigits(U64Digits - Len(x))
IsZero(x) == \A i \in 1..Len(x) : x[i] = 0
Less(a, b) ==
    LET D == {i \in 1..Len(a) : a[i] # b[i]}
    IN  D # {} /\ a[Max(D)] < b[Max(D)]
\* x / d on unsigned integers, for a divisor below 2^27
DivSmall(x, d) ==
    LET RECURSIVE R(_)
        R(i) == IF i > Len(x) THEN 0 ELSE (R(i + 1) * Radix + x[i]) % d
    IN  [i \in 1..Len(x) |-> (R(i + 1) * Radix + x[i]) \div d]
ModSmall(x, d) ==
    LET RECURSIVE R(_)
        R(i) == IF i > Len(x) THEN 0 ELSE (R(i + 1) * Radix + x[i]) % d
    IN  R(1)
\* x * m truncated to the width of x, for a factor below 2^27
MulSmall(x, m) ==
    LET RECURSIVE C(_)
        C(i) == IF i = 1 THEN 0 ELSE (x[i-1] * m + C(i - 1)) \div Radix
    IN  [i \in 1..Len(x) |-> (x[i] * m + C(i)) % Radix]
\* a + b truncated to the width of a
AddWrap(a, b) ==
    LET RECURSIVE C(_)
        C(i) == IF i = 1 THEN 0 ELSE (a[i-1] + b[i-1] + C(i - 1)) \div Radix
    IN  [i \in 1..Len(a) |-> (a[i] + b[i] + C(i)) % Radix]
\* a - b modulo 2^(4 * Len(a)): the wrapping subtraction
SubWrap(a, b) ==
    LET RECURSIVE Bw(_)
        Bw(i) == IF i = 1 THEN 0
                 ELSE IF a[i-1] - b[i-1] - Bw(i - 1) < 0 THEN 1 ELSE 0
    IN  [i \in 1..Len(a) |-> (a[i] - b[i] - Bw(i) + Radix) % Radix]

\* 11644473600 = 116444736 * 100, as a u64
WINDOWS_TO_UNIX_EPOCH == MulSmall(Widen(Digits(116444736, U32Digits)), 100)

\* `x as i64` of a u64: two's complement, as sign and magnitude
AsI64(x) ==
    IF x[U64Digits] >= Radix \div 2
    THEN [neg |-> TRUE, mag |-> SubWrap(ZeroDigits(U64Digits), x)]
    ELSE [neg |-> FALSE, mag |-> x]
I64Zero == [neg |-> FALSE, mag |-> ZeroDigits(U64Digits)]

---------------------------------------------------------------------------
(* Text: a String is the sequence of its Unicode scalar values *)

Str_PipePrefix == <<92, 92, 46, 92, 112, 105, 112, 101, 92, 83, 101, 115, 115, 105, 111, 110, 115, 92>>
Str_Backslash == <<92>>
Str_FailedPrefix == <<70, 97, 105, 108, 101, 100, 32, 116, 111, 32, 103, 101, 116, 32, 99, 111, 109, 109, 97, 110, 100, 32, 108, 105, 110, 101, 58, 32>>

WinErrors == {"NtQueryFailed", "MemoryProtectionFailed", "PebReadFailed",
              "ProcessParametersMemoryProtectionFailed", "CommandLineReadFailed",
              "EmptyCommandLine"}

\* impl Display for WinError
WinErrorDisplay(e) ==
    CASE e = "NtQueryFailed" ->
           <<70, 97, 105, 108, 101, 100, 32, 116, 111, 32, 113, 117, 101, 114, 121, 32, 112, 114, 111, 99, 101, 115, 115, 32, 105, 110, 102, 111, 114, 109, 97, 116, 105, 111, 110>>
      [] e = "MemoryProtectionFailed" ->
           <<77, 101, 109, 111, 114, 121, 32, 112, 114, 111, 116, 101, 99, 116, 105, 111, 110, 32, 99, 104, 101, 99, 107, 32, 102, 97, 105, 108, 101, 100, 32, 102, 111, 114, 32, 112, 114, 111, 99, 101, 115, 115, 32, 80, 69, 66>>
      [] e = "PebReadFailed" ->
           <<70, 97, 105, 108, 101, 100, 32, 116, 111, 32, 114, 101, 97, 100, 32, 112, 114, 111, 99, 101, 115, 115, 32, 80, 69, 66>>
      [] e = "ProcessParametersMemoryProtectionFailed" ->
           <<77, 101, 109, 111, 114, 121, 32, 112, 114, 111, 116, 101, 99, 116, 105, 111, 110, 32, 99, 104, 101, 99, 107, 32, 102, 97, 105, 108, 101, 100, 32, 102, 111, 114, 32, 112, 114, 111, 99, 101, 115, 115, 32, 112, 97, 114, 97, 109, 101, 116, 101, 114, 115>>
      [] e = "CommandLineReadFailed" ->
           <<70, 97, 105, 108, 101, 100, 32, 116, 111, 32, 114, 101, 97, 100, 32, 99, 111, 109, 109, 97, 110, 100, 32, 108, 105, 110, 101, 32, 102, 114, 111, 109, 32, 112, 114, 111, 99, 101, 115, 115, 32, 109, 101, 109, 111, 114, 121>>
      [] e = "EmptyCommandLine" ->
           <<67, 111, 109, 109, 97, 110, 100, 32, 108, 105, 110, 101, 32, 105, 115, 32, 101, 109, 112, 116, 121>>

\* UTF-16 code units
HighSurrogate(u) == 55296 <= u /\ u <= 56319
LowSurrogate(u) == 56320 <= u /\ u <= 57343
ReplacementChar == 65533

\* String::from_utf16_lossy / OsString::from_wide(..).to_string_lossy(): a high
\* surrogate followed by a low one is one scalar, any other surrogate U+FFFD
DecodeUtf16Lossy(w) ==
    LET n == Len(w)
        second(i) == i > 1 /\ LowSurrogate(w[i]) /\ HighSurrogate(w[i-1])
        first(i) == i < n /\ HighSurrogate(w[i]) /\ LowSurrogate(w[i+1])
        starts == SelectSeq([i \in 1..n |-> i], LAMBDA i : ~second(i))
        scalar(i) ==
            IF first(i) THEN 65536 + (w[i] - 55296) * 1024 + (w[i+1] - 56320)
            ELSE IF HighSurrogate(w[i]) \/ LowSurrogate(w[i]) THEN ReplacementChar
            ELSE w[i]
    IN  [k \in 1..Len(starts) |-> scalar(starts[k])]

\* u32::to_string: the decimal digits, most significant first, "0" for zero
U32ToString(x) ==
    LET RECURSIVE S(_)
        S(y) == IF IsZero(y) THEN <<>>
                ELSE Append(S(DivSmall(y, 10)), 48 + ModSmall(y, 10))
    IN  IF IsZero(x) THEN <<48>> ELSE S(x)

\* slice.iter().position(|&c| c == 0): 0 stands for None
PositionOfZero(buf) ==
    LET Z == {i \in 1..Len(buf) : buf[i] = 0}
    IN  IF Z = {} THEN 0 ELSE Min(Z)

---------------------------------------------------------------------------
(* HandleWrapper *)

\* HANDLE::is_invalid of the windows crate: the null handle or INVALID_HANDLE_VALUE
is_invalid(h) == h = INVALID_HANDLE_VALUE \/ h = 0

\* A wrapper variable is the set of the HANDLE it holds: empty while no
\* wrapper exists, one handle once HandleWrapper::new has run.
NoWrapper == {}
HandleWrapper_new(h) == {h}

\* a variant that closes whatever it holds
HandleWrapper_drop_Unchecked(w) ==
    IF w = NoWrapper THEN <<>> ELSE <<CHOOSE x \in w : TRUE>>

\* impl Drop for HandleWrapper: the CloseHandle calls dropping w makes
HandleWrapper_drop(w) ==
    IF w = NoWrapper THEN <<>>
    ELSE LET h == CHOOSE x \in w : TRUE
         IN  IF ~is_invalid(h) THEN <<h>> ELSE <<>>

\* the handles a sequence of CloseHandle calls closes
Closed(cs) == {cs[i] : i \in 1..Len(cs)}

\* the OS hands out a handle it has not handed out before in this call
FreshHandle == Cardinality(acquired) + 1

---------------------------------------------------------------------------
(* filetime_to_unix_timestamp *)

Profiles == {"dev", "release"}

\* ((ft.dwHighDateTime as u64) << 32) | (ft.dwLowDateTime as u64)
filetime_u64(ft) == ft.dwLowDateTime \o ft.dwHighDateTime

\* The u64 subtraction underflows when the FILETIME is before 1970: a build
\* with overflow checks (the dev profile) panics there, a build without
\* them (the release profile) wraps, and `as i64` reinterprets the bits.
filetime_to_unix_timestamp(ft, profile) ==
    LET secs == DivSmall(filetime_u64(ft), FILETIME_TO_SECONDS)
    IN  IF Less(secs, WINDOWS_TO_UNIX_EPOCH) /\ profile = "dev"
        THEN [panicked |-> TRUE, value |-> I64Zero]
        ELSE [panicked |-> FALSE,
              value |-> AsI64(SubWrap(secs, WINDOWS_TO_UNIX_EPOCH))]

---------------------------------------------------------------------------
(* add_app_container_process_name: lines 102-134, after both queries succeeded *)

\* object_path after GetAppContainerNamedObjectPath wrote into vec![0u16; 1024]
ObjectPathBuffer(path) ==
    [i \in 1..MAX_OBJECT_PATH_SIZE |->
        IF i <= Len(path.prefix) THEN path.prefix[i] ELSE path.fill]

\* [some |-> FALSE] is None
None == [some |-> FALSE, value |-> <<>>]
Some(v) == [some |-> TRUE, value |-> v]

pipe_name(ul_session_id, object_path) ==
    LET head == Str_PipePrefix \o U32ToString(ul_session_id) \o Str_Backslash
        pos == PositionOfZero(object_path)
    IN  IF pos = 0 THEN None
        ELSE Some(head \o DecodeUtf16Lossy(SubSeq(object_path, 1, pos - 1)))

---------------------------------------------------------------------------
(* get_process_command_line: lines 257-288 *)

MEM_COMMIT == 4096
MEM_RESERVE == 8192
PAGE_READONLY == 2
PAGE_READWRITE == 4
PAGE_EXECUTE_READWRITE == 64

\* a & b for a one-bit mask b
BitAnd(a, b) == ((a \div b) % 2) * b

\* a variant that does not look at the region's State
RegionReadable_IgnoresState(vq) ==
    ~(vq.ret = 0 \/ BitAnd(vq.Protect, PAGE_READWRITE) = 0)

\* the gate of lines 202-204 and 233-235 passes
RegionReadable(vq) ==
    ~(vq.ret = 0 \/ vq.State # MEM_COMMIT \/ BitAnd(vq.Protect, PAGE_READWRITE) = 0)

\* a variant that trusts the declared length
buffer_size_Unclamped(Length) == Length

\* lines 258-261
buffer_size(Length) == IF Length < MAX_CMD_LINE_SIZE THEN Length ELSE MAX_CMD_LINE_SIZE
\* vec![0u16; buffer_size / 2 + 1]
BufferUnits(bs) == bs \div 2 + 1

\* the code unit at 1-based offset i of the target's command-line memory
RemoteUnit(mem, i) == IF i <= Len(mem.prefix) THEN mem.prefix[i] ELSE mem.fill

\* the local buffer after ReadProcessMemory copied bs bytes into it: whole
\* units, then for an odd bs the low byte of one more unit; the rest stays 0
BufferAfterRead(mem, bs) ==
    [i \in 1..BufferUnits(bs) |->
        IF 2 * i <= bs THEN RemoteUnit(mem, i)
        ELSE IF 2 * i - 1 <= bs THEN RemoteUnit(mem, i) % 256
        ELSE 0]

Ok(text) == [ok |-> TRUE, text |-> text, err |-> ""]
Err(e) == [ok |-> FALSE, text |-> <<>>, err |-> e]

\* a variant without the `len > 0` test
DecodeCommandLine_NoEmptyCheck(buffer) ==
    LET pos == PositionOfZero(buffer)
        len == IF pos = 0 THEN Len(buffer) ELSE pos - 1
    IN  Ok(DecodeUtf16Lossy(SubSeq(buffer, 1, len)))

\* lines 278-288
DecodeCommandLine(buffer) ==
    LET pos == PositionOfZero(buffer)
        len == IF pos = 0 THEN Len(buffer) ELSE pos - 1
    IN  IF len > 0 THEN Ok(DecodeUtf16Lossy(SubSeq(buffer, 1, len)))
        ELSE Err("EmptyCommandLine")

\* line 389: unwrap_or_else(|e| format!("Failed to get command line: {}", e))
command_line(r) == IF r.ok THEN r.text ELSE Str_FailedPrefix \o WinErrorDisplay(r.err)

---------------------------------------------------------------------------
(* The environment: what the snapshot's processes hold *)

Queries == {"get_process_info", "get_app_container_process_tokens"}

\* the PROCESSENTRY32 of the i-th snapshot entry: distinct ids, parent before child
pe32(i) == [th32ProcessID |-> 4 * i, th32ParentProcessID |-> 4 * (i - 1)]

SeqsUpTo(S, n) == UNION {[1..k -> S] : k \in 0..n}

\* FILETIMEs: 1601-01-01, one tick before and exactly 1970-01-01, 2020-01-01,
\* and the largest value
FtLows == {ZeroDigits(U32Digits), Digits(1, U32Digits), U32(54590, 32767),
           U32(54590, 32768), Digits(1761935360, U32Digits), U32(65535, 65535)}
FtHighs == {ZeroDigits(U32Digits), Digits(1, U32Digits), Digits(27111901, U32Digits),
            Digits(27111902, U32Digits), Digits(30785590, U32Digits), U32(65535, 65535)}
FtZero == [dwLowDateTime |-> ZeroDigits(U32Digits), dwHighDateTime |-> ZeroDigits(U32Digits)]
Ft2020 == [dwLowDateTime |-> Digits(1761935360, U32Digits),
           dwHighDateTime |-> Digits(30785590, U32Digits)]
FtRich == [dwLowDateTime : FtLows, dwHighDateTime : FtHighs]

\* UTF-16 code units a target may hold: NUL, 'A', a high and a low surrogate
Units == {0, 65, 55357, 56832}
\* command-line memory: an explicit prefix, then one unit repeated
Mems(n) == [prefix : SeqsUpTo(Units, n), fill : {0, 65}]
\* UNICODE_STRING.Length is a u16
Lengths == {0, 1, 2, 8191, 8192, 8193, 65535}
CmdDefault == [PebBaseAddress |-> 16, ProcessParameters |-> 32, Buffer |-> 48,
               Length |-> 4, mem |-> [prefix |-> <<65, 66>>, fill |-> 0]]
CmdRich == [PebBaseAddress : {0, 16}, ProcessParameters : {0, 32}, Buffer : {0, 32, 48},
            Length : Lengths, mem : Mems(MaxCmdUnits)]

TokDefault == [isAppContainer |-> 1, session |-> Digits(1, U32Digits),
               path |-> [prefix |-> <<65>>, fill |-> 0]]
TokSmall == [isAppContainer : {0, 1}, session : {Digits(1, U32Digits)},
             path : {[prefix |-> <<65>>, fill |-> 0], [prefix |-> <<>>, fill |-> 0]}]
TokRich == [isAppContainer : {0, 1, 2},
            session : {ZeroDigits(U32Digits), Digits(1203, U32Digits), U32(65535, 65535)},
            path : [prefix : SeqsUpTo({0, 65, 55357}, MaxPathUnits), fill : {0, 65}]]

ProcsSmall(q) ==
    IF q = "get_process_info"
    THEN [ft : {FtZero, Ft2020}, cmd : {CmdDefault}, token : {TokDefault}]
    ELSE [ft : {Ft2020}, cmd : {CmdDefault}, token : TokSmall]

---------------------------------------------------------------------------
(* Initial states *)

NoLocals == [creation_date |-> I64Zero, PebBaseAddress |-> 0, ProcessParameters |-> 0,
             Buffer |-> 0, Length |-> 0, cmd |-> Err(""),
             ul_session_id |-> ZeroDigits(U32Digits)]
NoFacts == [opened |-> FALSE, timesOk |-> FALSE, tokOpened |-> FALSE, infoOk |-> FALSE,
            flag |-> 0, resolved |-> FALSE, appended |-> FALSE]
Running == [kind |-> "running", msg |-> ""]

InitWith(q, b, w) ==
    /\ query = q /\ build = b /\ world = w
    /\ pc = "start" /\ idx = 0
    /\ snapW = NoWrapper /\ procW = NoWrapper /\ tokW = NoWrapper
    /\ open = {} /\ acquired = {} /\ closeLog = <<>>
    /\ list = <<>> /\ ret = Running
    /\ loc = NoLocals /\ calls = <<>> /\ it = NoFacts /\ hist = <<>>
    /\ snapRes = "pending" /\ firstRes = "pending"

\* either query over a snapshot of up to MaxProcs processes
Init ==
    \E q \in Queries, b \in Profiles :
        \E w \in SeqsUpTo(ProcsSmall(q), MaxProcs) : InitWith(q, b, w)

\* get_process_info over one process, every FILETIME
InitFiletime ==
    \E b \in Profiles, f \in FtRich :
        InitWith("get_process_info", b, <<[ft |-> f, cmd |-> CmdDefault, token |-> TokDefault]>>)

\* get_process_info over one process, every command-line layout
InitCmdLine ==
    \E c \in CmdRich :
        InitWith("get_process_info", "release", <<[ft |-> Ft2020, cmd |-> c, token |-> TokDefault]>>)

\* get_app_container_process_tokens over one process, every token
InitEndpoint ==
    \E t \in TokRich :
        InitWith("get_app_container_process_tokens", "release",
                 <<[ft |-> Ft2020, cmd |-> CmdDefault, token |-> t]>>)

---------------------------------------------------------------------------
(* Returning *)

IsInfo == query = "get_process_info"
cur == world[idx]

\* leaving the function: the wrappers still alive are dropped, innermost first
Leave(r) ==
    LET cs == HandleWrapper_drop(tokW) \o HandleWrapper_drop(procW) \o HandleWrapper_drop(snapW)
    IN  /\ ret' = r
        /\ pc' = "done"
        /\ closeLog' = closeLog \o cs
        /\ open' = open \ Closed(cs)
        /\ snapW' = NoWrapper /\ procW' = NoWrapper /\ tokW' = NoWrapper

\* the end of the loop body: process_token, then process, go out of scope
EndOfBody ==
    LET cs == HandleWrapper_drop(tokW) \o HandleWrapper_drop(procW)
    IN  /\ closeLog' = closeLog \o cs
        /\ open' = open \ Closed(cs)
        /\ procW' = NoWrapper /\ tokW' = NoWrapper
        /\ pc' = "next"

SnapshotFailedMsg ==
    IF IsInfo THEN "Failed to create process snapshot" ELSE "CreateToolhelp32Snapshot failed"
FirstFailedMsg ==
    IF IsInfo THEN "Failed to get first process in snapshot" ELSE "Process32First failed"

---------------------------------------------------------------------------
(* The walk both queries share *)

\* lines 323-333 and 413-423
CreateToolhelp32Snapshot ==
    /\ pc = "start"
    /\ \E r \in {"err", "invalid", "ok"} :
        /\ snapRes' = r
        /\ IF r = "ok"
           THEN /\ snapW' = HandleWrapper_new(FreshHandle)
                /\ open' = open \cup {FreshHandle}
                /\ acquired' = acquired \cup {FreshHandle}
                /\ pc' = "first"
                /\ UNCHANGED <<ret, closeLog, procW, tokW>>
           ELSE \* unwrap_or(INVALID_HANDLE_VALUE), then the comparison of line 326/416
                /\ Leave([kind |-> "err", msg |-> SnapshotFailedMsg])
                /\ UNCHANGED acquired
    /\ UNCHANGED <<build, query, world, idx, list, loc, calls, it, hist, firstRes>>

\* lines 342-349 and 432-439
Process32First ==
    /\ pc = "first"
    /\ \E ok \in {b \in BOOLEAN : b => Len(world) > 0} :
        /\ firstRes' = IF ok THEN "ok" ELSE "fail"
        /\ IF ok
           THEN /\ idx' = 1
                /\ pc' = "open"
                /\ UNCHANGED <<ret, closeLog, open, snapW, procW, tokW>>
           ELSE /\ Leave([kind |-> "err", msg |-> FirstFailedMsg])
                /\ UNCHANGED idx
    /\ UNCHANGED <<build, query, world, acquired, list, loc, calls, it, hist, snapRes>>

\* lines 353-364 and 443-455.  An Err, or (info) an invalid handle, skips
\* the body; in the token query an invalid handle runs Process32Next inside the
\* block (lines 451-454), which is the same step as the one of line 489.
OpenProcess ==
    /\ pc = "open"
    /\ \E r \in {"err", "invalid", "ok"} :
        /\ loc' = NoLocals
        /\ calls' = <<>>
        /\ IF r = "ok"
           THEN /\ procW' = HandleWrapper_new(FreshHandle)
                /\ open' = open \cup {FreshHandle}
                /\ acquired' = acquired \cup {FreshHandle}
                /\ it' = [NoFacts EXCEPT !.opened = TRUE]
                /\ pc' = IF IsInfo THEN "times" ELSE "token"
                /\ UNCHANGED <<hist, closeLog, tokW>>
           ELSE LET w == IF r = "invalid" THEN HandleWrapper_new(INVALID_HANDLE_VALUE)
                                          ELSE NoWrapper
                    \* get_process_info drops the wrapper at line 397, before
                    \* Process32Next; the token query keeps it until its continue/break
                    cs == IF IsInfo THEN HandleWrapper_drop(w) ELSE <<>>
                IN  /\ procW' = IF IsInfo THEN NoWrapper ELSE w
                    /\ closeLog' = closeLog \o cs
                    /\ open' = open \ Closed(cs)
                    /\ it' = NoFacts
                    /\ hist' = Append(hist, NoFacts)
                    /\ pc' = "next"
                    /\ UNCHANGED <<acquired, tokW>>
    /\ UNCHANGED <<build, query, world, idx, snapW, list, ret, snapRes, firstRes>>

\* lines 400-405 and 489-494 (and 451-453): advance, or break and return Ok
Process32Next ==
    /\ pc = "next"
    /\ IF idx < Len(world)
       THEN LET cs == HandleWrapper_drop(procW)   \* the `continue` of line 454
            IN  /\ idx' = idx + 1
                /\ pc' = "open"
                /\ procW' = NoWrapper
                /\ closeLog' = closeLog \o cs
                /\ open' = open \ Closed(cs)
                /\ UNCHANGED <<ret, snapW, tokW>>
       ELSE /\ Leave([kind |-> "ok", msg |-> ""])
            /\ UNCHANGED idx
    /\ UNCHANGED <<build, query, world, acquired, list, loc, calls, it, hist, snapRes, firstRes>>

---------------------------------------------------------------------------
(* get_process_info: the loop body, lines 365-397 *)

\* lines 366-385
GetProcessTimes ==
    /\ pc = "times"
    /\ \E ok \in BOOLEAN :
        LET t == filetime_to_unix_timestamp(cur.ft, build)
        IN  /\ it' = [it EXCEPT !.timesOk = ok]
            /\ IF ok /\ t.panicked
               THEN \* the panic unwinds through process and process_snap
                    /\ Leave([kind |-> "panic", msg |-> "attempt to subtract with overflow"])
                    /\ UNCHANGED loc
               ELSE /\ loc' = [loc EXCEPT !.creation_date = IF ok THEN t.value ELSE I64Zero]
                    /\ pc' = "nt"
                    /\ UNCHANGED <<ret, closeLog, open, snapW, procW, tokW>>
    /\ UNCHANGED <<build, query, world, idx, acquired, list, calls, hist, snapRes, firstRes>>

\* get_process_command_line returns r to line 388
Return(r) ==
    /\ loc' = [loc EXCEPT !.cmd = r]
    /\ pc' = "push"

\* lines 179-191
NtQueryInformationProcess ==
    /\ pc = "nt"
    /\ \E ok \in BOOLEAN :
        /\ calls' = Append(calls, [op |-> "NtQueryInformationProcess", ok |-> ok])
        /\ IF ~ok \/ cur.cmd.PebBaseAddress = 0
           THEN Return(Err("NtQueryFailed"))
           ELSE /\ loc' = [loc EXCEPT !.PebBaseAddress = cur.cmd.PebBaseAddress]
                /\ pc' = "vq_peb"
    /\ UNCHANGED <<build, query, world, idx, snapW, procW, tokW, open, acquired, closeLog,
                   list, ret, it, hist, snapRes, firstRes>>

\* what VirtualQueryEx may answer: failure, or a region's State and Protect
RegionAnswers ==
    {[ret |-> 0, State |-> 0, Protect |-> 0],
     [ret |-> 48, State |-> MEM_RESERVE, Protect |-> PAGE_READWRITE]}
    \cup [ret : {48}, State : {MEM_COMMIT},
          Protect : {PAGE_READONLY, PAGE_READWRITE, PAGE_EXECUTE_READWRITE}]

\* lines 194-207
VirtualQueryEx_Peb ==
    /\ pc = "vq_peb"
    /\ \E vq \in RegionAnswers :
        /\ calls' = Append(calls, [op |-> "VirtualQueryEx", addr |-> loc.PebBaseAddress,
                                   ret |-> vq.ret, State |-> vq.State,
                                   Protect |-> vq.Protect])
        /\ IF ~RegionReadable(vq)
           THEN Return(Err("MemoryProtectionFailed"))
           ELSE pc' = "read_peb" /\ UNCHANGED loc
    /\ UNCHANGED <<build, query, world, idx, snapW, procW, tokW, open, acquired, closeLog,
                   list, ret, it, hist, snapRes, firstRes>>

\* lines 210-223; a failed or empty read leaves PEB::default(), whose
\* ProcessParameters is null
ReadProcessMemory_Peb ==
    /\ pc = "read_peb"
    /\ \E r \in {"err", "zero_bytes", "ok"} :
        LET ProcessParameters == IF r = "ok" THEN cur.cmd.ProcessParameters ELSE 0
        IN  /\ calls' = Append(calls, [op |-> "ReadProcessMemory", what |-> "PEB",
                                       addr |-> loc.PebBaseAddress, res |-> r])
            /\ IF r = "err" \/ ProcessParameters = 0 \/ r = "zero_bytes"
               THEN Return(Err("PebReadFailed"))
               ELSE /\ loc' = [loc EXCEPT !.ProcessParameters = ProcessParameters]
                    /\ pc' = "vq_params"
    /\ UNCHANGED <<build, query, world, idx, snapW, procW, tokW, open, acquired, closeLog,
                   list, ret, it, hist, snapRes, firstRes>>

\* lines 226-238
VirtualQueryEx_Params ==
    /\ pc = "vq_params"
    /\ \E vq \in RegionAnswers :
        /\ calls' = Append(calls, [op |-> "VirtualQueryEx", addr |-> loc.ProcessParameters,
                                   ret |-> vq.ret, State |-> vq.State,
                                   Protect |-> vq.Protect])
        /\ IF ~RegionReadable(vq)
           THEN Return(Err("ProcessParametersMemoryProtectionFailed"))
           ELSE pc' = "read_params" /\ UNCHANGED loc
    /\ UNCHANGED <<build, query, world, idx, snapW, procW, tokW, open, acquired, closeLog,
                   list, ret, it, hist, snapRes, firstRes>>

\* lines 241-255; a failed read leaves RTL_USER_PROCESS_PARAMETERS::default()
ReadProcessMemory_Params ==
    /\ pc = "read_params"
    /\ \E r \in {"err", "ok"} :
        LET Buffer == IF r = "ok" THEN cur.cmd.Buffer ELSE 0
            Length == IF r = "ok" THEN cur.cmd.Length ELSE 0
        IN  /\ calls' = Append(calls, [op |-> "ReadProcessMemory", what |-> "Params",
                                       addr |-> loc.ProcessParameters, res |-> r])
            /\ IF r = "err" \/ Buffer = 0 \/ Length = 0
               THEN Return(Err("EmptyCommandLine"))
               ELSE /\ loc' = [loc EXCEPT !.Buffer = Buffer, !.Length = Length]
                    /\ pc' = "read_cmd"
    /\ UNCHANGED <<build, query, world, idx, snapW, procW, tokW, open, acquired, closeLog,
                   list, ret, it, hist, snapRes, firstRes>>

\* lines 257-288: the clamp, the allocation, the read and the decoding
ReadProcessMemory_CommandLine ==
    /\ pc = "read_cmd"
    /\ \E r \in {"err", "ok"} :
        LET bs == buffer_size(loc.Length)
        IN  /\ calls' = calls \o
                  <<[op |-> "vec", units |-> BufferUnits(bs), bytes |-> 2 * BufferUnits(bs)],
                    [op |-> "ReadProcessMemory", what |-> "CommandLine",
                     addr |-> loc.Buffer, size |-> bs, res |-> r]>>
            /\ IF r = "err"
               THEN Return(Err("CommandLineReadFailed"))
               ELSE Return(DecodeCommandLine(BufferAfterRead(cur.cmd.mem, bs)))
    /\ UNCHANGED <<build, query, world, idx, snapW, procW, tokW, open, acquired, closeLog,
                   list, ret, it, hist, snapRes, firstRes>>

\* lines 388-397: the record is pushed and the body ends
PushProcessInfo ==
    /\ pc = "push"
    /\ list' = Append(list, [process_id |-> pe32(idx).th32ProcessID,
                             parent_process_id |-> pe32(idx).th32ParentProcessID,
                             creation_date |-> loc.creation_date,
                             command_line |-> command_line(loc.cmd)])
    /\ it' = [it EXCEPT !.appended = TRUE]
    /\ hist' = Append(hist, it')
    /\ EndOfBody
    /\ UNCHANGED <<build, query, world, idx, snapW, acquired, ret, loc, calls,
                   snapRes, firstRes>>

---------------------------------------------------------------------------
(* get_app_container_process_tokens: the loop body, lines 457-487 *)

\* ends the body without an endpoint
SkipEntry ==
    /\ hist' = Append(hist, it')
    /\ EndOfBody
    /\ UNCHANGED list

\* lines 457-464
OpenProcessToken ==
    /\ pc = "token"
    /\ \E ok \in BOOLEAN :
        IF ok
        THEN /\ tokW' = HandleWrapper_new(FreshHandle)
             /\ open' = open \cup {FreshHandle}
             /\ acquired' = acquired \cup {FreshHandle}
             /\ it' = [it EXCEPT !.tokOpened = TRUE]
             /\ pc' = "is_app_container"
             /\ UNCHANGED <<hist, list, closeLog, procW>>
        ELSE /\ it' = it
             /\ SkipEntry
             /\ UNCHANGED acquired
    /\ UNCHANGED <<build, query, world, idx, snapW, ret, loc, calls, snapRes, firstRes>>

\* a variant that trusts any successful query
IsContainerToken_IgnoresFlag(ok, ul_is_app_container) == ok

\* line 480
IsContainerToken(ok, ul_is_app_container) == ok /\ ul_is_app_container # 0

\* lines 467-480; a failed query leaves ul_is_app_container at its initial 0
GetTokenInformation_IsAppContainer ==
    /\ pc = "is_app_container"
    /\ \E ok \in BOOLEAN :
        LET ul_is_app_container == IF ok THEN cur.token.isAppContainer ELSE 0
        IN  /\ it' = [it EXCEPT !.infoOk = ok, !.flag = ul_is_app_container]
            /\ IF IsContainerToken(ok, ul_is_app_container)
               THEN /\ pc' = "session_id"
                    /\ UNCHANGED <<hist, list, closeLog, open, procW, tokW>>
               ELSE SkipEntry
    /\ UNCHANGED <<build, query, world, idx, snapW, acquired, ret, loc, calls,
                   snapRes, firstRes>>

\* add_app_container_process_name, lines 84-100
GetTokenInformation_SessionId ==
    /\ pc = "session_id"
    /\ \E ok \in BOOLEAN :
        /\ it' = [it EXCEPT !.resolved = TRUE]
        /\ IF ok
           THEN /\ loc' = [loc EXCEPT !.ul_session_id = cur.token.session]
                /\ pc' = "object_path"
                /\ UNCHANGED <<hist, list, closeLog, open, procW, tokW>>
           ELSE /\ SkipEntry
                /\ UNCHANGED loc
    /\ UNCHANGED <<build, query, world, idx, snapW, acquired, ret, calls, snapRes, firstRes>>

\* add_app_container_process_name, lines 102-134, and the push of lines 482-484
GetAppContainerNamedObjectPath ==
    /\ pc = "object_path"
    /\ \E ok \in BOOLEAN :
        LET token_name == IF ok THEN pipe_name(loc.ul_session_id, ObjectPathBuffer(cur.token.path))
                          ELSE None
        IN  /\ it' = [it EXCEPT !.appended = token_name.some]
            /\ list' = IF token_name.some THEN Append(list, token_name.value) ELSE list
            /\ hist' = Append(hist, it')
            /\ EndOfBody
    /\ UNCHANGED <<build, query, world, idx, snapW, acquired, ret, loc, calls,
                   snapRes, firstRes>>

---------------------------------------------------------------------------
(* Specifications *)

NextInfo ==
    \/ CreateToolhelp32Snapshot
    \/ Process32First
    \/ OpenProcess
    \/ GetProcessTimes
    \/ NtQueryInformationProcess
    \/ VirtualQueryEx_Peb
    \/ ReadProcessMemory_Peb
    \/ VirtualQueryEx_Params
    \/ ReadProcessMemory_Params
    \/ ReadProcessMemory_CommandLine
    \/ PushProcessInfo
    \/ Process32Next

NextTokens ==
    \/ CreateToolhelp32Snapshot
    \/ Process32First
    \/ OpenProcess
    \/ OpenProcessToken
    \/ GetTokenInformation_IsAppContainer
    \/ GetTokenInformation_SessionId
    \/ GetAppContainerNamedObjectPath
    \/ Process32Next

Next ==
    \/ CreateToolhelp32Snapshot
    \/ Process32First
    \/ OpenProcess
    \/ GetProcessTimes
    \/ NtQueryInformationProcess
    \/ VirtualQueryEx_Peb
    \/ ReadProcessMemory_Peb
    \/ VirtualQueryEx_Params
    \/ ReadProcessMemory_Params
    \/ ReadProcessMemory_CommandLine
    \/ PushProcessInfo
    \/ OpenProcessToken
    \/ GetTokenInformation_IsAppContainer
    \/ GetTokenInformation_SessionId
    \/ GetAppContainerNamedObjectPath
    \/ Process32Next

\* both queries, snapshots of up to MaxProcs processes
Spec == Init /\ [][Next]_vars
\* get_process_info on one process over the FILETIME inputs
SpecFiletime == InitFiletime /\ [][NextInfo]_vars
\* get_process_info on one process over the command-line layouts
SpecCmdLine == InitCmdLine /\ [][NextInfo]_vars
\* get_app_container_process_tokens on one process over the tokens
SpecEndpoint == InitEndpoint /\ [][NextTokens]_vars

---------------------------------------------------------------------------
(* Properties *)

Range(q) == {q[i] : i \in 1..Len(q)}
Finished == pc = "done"

\* the token of an iteration was opened and confirmed to be a container's
ContainerConfirmed(f) == f.opened /\ f.tokOpened /\ f.infoOk /\ f.flag # 0

\* C1: in get_app_container_process_tokens the endpoint resolver runs, and an
\* endpoint is appended, only for an entry whose process opened, whose token
\* opened and whose is-app-container query succeeded with a non-zero value;
\* the list holds one string per such appended entry and nothing else.
C1_OnlyContainersListed ==
    ~IsInfo =>
        /\ \A k \in 1..Len(hist) :
              (hist[k].resolved \/ hist[k].appended)
                  => ContainerConfirmed(hist[k]) /\ world[k].token.isAppContainer # 0
        /\ pc \in {"session_id", "object_path"}
              => ContainerConfirmed(it) /\ cur.token.isAppContainer # 0
        /\ Len(list) = Cardinality({k \in 1..Len(hist) : hist[k].appended})

\* a finished walk that listed one container and passed over a process whose
\* token query succeeded and reported 0
C1_Witness ==
    /\ ~IsInfo /\ Finished /\ ret.kind = "ok"
    /\ \E k \in 1..Len(hist) : hist[k].infoOk /\ hist[k].flag = 0 /\ ~hist[k].appended
    /\ \E j \in 1..Len(hist) : hist[j].appended

IsDigit(c) == 48 <= c /\ c <= 57
\* s is \\.\pipe\Sessions\<digits>\<nonempty path>
MatchesEndpointGrammar(s) ==
    LET p == Len(Str_PipePrefix)
    IN  /\ Len(s) > p
        /\ SubSeq(s, 1, p) = Str_PipePrefix
        /\ \E k \in 1..(Len(s) - p) :
              /\ \A i \in (p + 1)..(p + k) : IsDigit(s[i])
              /\ Len(s) > p + k + 1
              /\ s[p + k + 1] = 92

\* C2: every string get_app_container_process_tokens lists matches
\* \\.\pipe\Sessions\<digits>\<nonempty path>.
C2_EndpointGrammar ==
    ~IsInfo => \A i \in 1..Len(list) : MatchesEndpointGrammar(list[i])

\* C3: every record of get_process_info carries a non-empty command_line: the
\* decoded text when the reader returned Ok, else "Failed to get command
\* line: " followed by the Display text of the reader's error.
C3_CommandLineNeverEmpty ==
    IsInfo =>
        /\ \A i \in 1..Len(list) : Len(list[i].command_line) > 0
        /\ (pc \in {"next", "done"} /\ it.appended) =>
              LET c == list[Len(list)].command_line
              IN  IF loc.cmd.ok
                  THEN c = loc.cmd.text
                  ELSE /\ loc.cmd.err \in WinErrors
                       /\ SubSeq(c, 1, Len(Str_FailedPrefix)) = Str_FailedPrefix
                       /\ SubSeq(c, Len(Str_FailedPrefix) + 1, Len(c)) = WinErrorDisplay(loc.cmd.err)

\* a record whose command line was decoded with a replacement character
C3_Witness ==
    /\ IsInfo /\ Finished /\ Len(list) = 1 /\ loc.cmd.ok
    /\ ReplacementChar \in Range(list[1].command_line)

\* C4: a query returns an error exactly when the snapshot or its first entry
\* failed; otherwise it returns its list, after walking the whole snapshot.
C4_ErrorOnlyOnSnapshotFailure ==
    Finished =>
        /\ ret.kind = "err" <=> (snapRes \in {"err", "invalid"} \/ firstRes = "fail")
        /\ ret.kind # "err" => ret.kind = "ok" /\ Len(hist) = Len(world)

\* the records the opened entries of the walk should have produced
OpenedEntries == SelectSeq([k \in 1..Len(hist) |-> k], LAMBDA k : hist[k].opened)

\* C5: once the snapshot and its first entry were obtained, get_process_info
\* returns one record per opened entry, in snapshot order, with that entry's
\* ids, creation_date 0 where GetProcessTimes failed; each entry is examined once.
C5_OneRecordPerOpenedEntry ==
    (IsInfo /\ Finished /\ snapRes = "ok" /\ firstRes = "ok") =>
        /\ ret.kind = "ok"
        /\ Len(hist) = Len(world)
        /\ Len(list) = Len(OpenedEntries)
        /\ \A i \in 1..Len(list) :
              LET k == OpenedEntries[i]
              IN  /\ list[i].process_id = pe32(k).th32ProcessID
                  /\ list[i].parent_process_id = pe32(k).th32ParentProcessID
                  /\ ~hist[k].timesOk => list[i].creation_date = I64Zero

\* r = (raw / 10_000_000) - 11_644_473_600 over the integers, for the signed r
IsUnixSeconds(r, ft) ==
    LET raw == filetime_u64(ft)
        q == IF r.neg THEN SubWrap(WINDOWS_TO_UNIX_EPOCH, r.mag)
             ELSE AddWrap(r.mag, WINDOWS_TO_UNIX_EPOCH)
        prod == MulSmall(q, FILETIME_TO_SECONDS)
    IN  /\ r.neg => ~Less(WINDOWS_TO_UNIX_EPOCH, r.mag) /\ ~IsZero(r.mag)
        /\ DivSmall(prod, FILETIME_TO_SECONDS) = q
        /\ ~Less(raw, prod)
        /\ Less(SubWrap(raw, prod), Widen(Digits(FILETIME_TO_SECONDS, U32Digits)))

\* C6: for every FILETIME the conversion returns (raw / 10_000_000) -
\* 11_644_473_600 as an i64, negative below 1970, and does not abort.
C6_FiletimeToUnix ==
    (IsInfo /\ it.timesOk) =>
        /\ ret.kind # "panic"
        /\ IsUnixSeconds(loc.creation_date, cur.ft)
        /\ cur.ft = FtZero =>
              loc.creation_date = [neg |-> TRUE, mag |-> WINDOWS_TO_UNIX_EPOCH]

CommandLineReads ==
    {i \in 1..Len(calls) : calls[i].op = "ReadProcessMemory" /\ calls[i].what = "CommandLine"}
Allocations == {i \in 1..Len(calls) : calls[i].op = "vec"}
ClampedLength == IF loc.Length <= MAX_CMD_LINE_SIZE THEN loc.Length ELSE MAX_CMD_LINE_SIZE

\* C7 as stated: the local buffer is never larger than 8192 bytes, and the
\* read asks for min(declared, 8192) bytes, which fit the buffer.
C7_AllocationWithinCeiling ==
    /\ \A i \in Allocations : calls[i].bytes <= MAX_CMD_LINE_SIZE
    /\ \A i \in CommandLineReads :
          /\ calls[i].size = ClampedLength
          /\ calls[i].size <= MAX_CMD_LINE_SIZE
          /\ calls[i - 1].op = "vec" /\ calls[i].size <= calls[i - 1].bytes

\* C7 (amended): the local buffer is never larger than 8194 bytes (4097
\* code units: the ceiling plus one terminator unit); the read asks for
\* min(declared, 8192) bytes, never more than 8192, and they fit the buffer.
C7_ClampedRead ==
    /\ \A i \in Allocations :
          /\ calls[i].bytes <= MAX_CMD_LINE_SIZE + 2
          /\ calls[i].units <= MAX_CMD_LINE_SIZE \div 2 + 1
    /\ \A i \in CommandLineReads :
          /\ calls[i].size = ClampedLength
          /\ calls[i].size <= MAX_CMD_LINE_SIZE
          /\ calls[i - 1].op = "vec" /\ calls[i].size <= calls[i - 1].bytes

\* the command-line read was issued for a declared length above the ceiling
C7_Witness ==
    /\ CommandLineReads # {}
    /\ loc.Length > MAX_CMD_LINE_SIZE
    /\ \E i \in CommandLineReads : calls[i].size = MAX_CMD_LINE_SIZE /\ calls[i].res = "ok"

\* a region query that succeeded on a committed region with the read/write bit
GatePassed(c) ==
    /\ c.op = "VirtualQueryEx"
    /\ c.ret # 0 /\ c.State = MEM_COMMIT /\ (c.Protect \div PAGE_READWRITE) % 2 = 1

\* C8: every remote read (control block, process parameters, command line)
\* comes after a passed region query on the very address it reads.
C8_EveryReadGated ==
    \A i \in 1..Len(calls) :
        calls[i].op = "ReadProcessMemory" =>
            \E j \in 1..(i - 1) : GatePassed(calls[j]) /\ calls[j].addr = calls[i].addr

\* the OS calls of the reader, allocations left out
OsCalls == SelectSeq(calls, LAMBDA c : c.op # "vec")
StepOrder == <<"NtQueryInformationProcess", "VirtualQueryEx", "ReadProcessMemory",
               "VirtualQueryEx", "ReadProcessMemory", "ReadProcessMemory">>
StepError == <<"NtQueryFailed", "MemoryProtectionFailed", "PebReadFailed",
               "ProcessParametersMemoryProtectionFailed", "EmptyCommandLine",
               "CommandLineReadFailed">>
\* the k-th step succeeded, judged from the OS's answer and the target's memory
StepPassed(k) ==
    LET c == OsCalls[k]
    IN  CASE k = 1 -> c.ok /\ cur.cmd.PebBaseAddress # 0
          [] k = 2 -> GatePassed(c)
          [] k = 3 -> c.res = "ok" /\ cur.cmd.ProcessParameters # 0
          [] k = 4 -> GatePassed(c)
          [] k = 5 -> c.res = "ok" /\ cur.cmd.Buffer # 0 /\ cur.cmd.Length # 0
          [] k = 6 -> c.res = "ok"
\* the first code unit the command-line read delivered
FirstUnitRead ==
    IF cur.cmd.Length = 1 THEN RemoteUnit(cur.cmd.mem, 1) % 256
    ELSE RemoteUnit(cur.cmd.mem, 1)
ReaderRunning == pc \in {"vq_peb", "read_peb", "vq_params", "read_params", "read_cmd"}
ReaderReturned == pc = "push" \/ (pc \in {"next", "done"} /\ it.appended)

\* C9: the reader issues its OS calls in the order of its steps, stops at the
\* first step that fails and returns that step's failure kind; it returns Ok
\* only after all six calls succeeded and the decoded text is non-empty, and
\* EmptyCommandLine when all succeeded and the text is empty.
C9_EarliestFailureWins ==
    IsInfo =>
        LET n == Len(OsCalls)
        IN  /\ n <= Len(StepOrder)
            /\ \A k \in 1..n : OsCalls[k].op = StepOrder[k]
            /\ \A k \in 1..(n - 1) : StepPassed(k)
            /\ ReaderRunning => n >= 1 /\ StepPassed(n)
            /\ ReaderReturned =>
                  /\ n >= 1
                  /\ ~StepPassed(n) => ~loc.cmd.ok /\ loc.cmd.err = StepError[n]
                  /\ StepPassed(n) =>
                        /\ n = Len(StepOrder)
                        /\ IF FirstUnitRead # 0
                           THEN loc.cmd.ok /\ Len(loc.cmd.text) > 0
                           ELSE ~loc.cmd.ok /\ loc.cmd.err = "EmptyCommandLine"

\* the reader failed at its fourth step, after three successful calls
C9_Witness ==
    /\ IsInfo /\ pc = "push"
    /\ Len(OsCalls) = 4
    /\ loc.cmd.err = "ProcessParametersMemoryProtectionFailed"

NoDuplicates(q) == \A i, j \in 1..Len(q) : q[i] = q[j] => i = j

\* C10: CloseHandle is called at most once per handle and only on valid
\* handles the call obtained; when the walker advances or reads the next
\* entry only the snapshot is open; when the query has returned (Ok, either
\* error, or unwinding) nothing is open and every handle was closed once.
C10_HandlesReleasedOnce ==
    /\ NoDuplicates(closeLog)
    /\ \A h \in Range(closeLog) : h \in acquired /\ ~is_invalid(h)
    /\ open = acquired \ Range(closeLog)
    /\ pc \in {"next", "open"} => open = snapW
    /\ Finished => open = {} /\ Range(closeLog) = acquired

\* a token walk that returned after closing snapshot, process and token
\* handles and after meeting a process it could not open
C10_Witness ==
    /\ ~IsInfo /\ Finished /\ ret.kind = "ok"
    /\ Cardinality(acquired) >= 3
    /\ Len(closeLog) = Cardinality(acquired)
    /\ \E k \in 1..Len(hist) : ~hist[k].opened

====
